---- MODULE Spec2Model ----
(***************************************************************************)
(* A model of the SASS playground: the execution-context manager and the   *)
(* benchmark harness of src/src/runner.py, the comparison of two run       *)
(* results, and the compile / disassemble / assemble stages of             *)
(* src/src/compiler.py, src/src/disassembler.py and src/src/assembler.py.  *)
(*                                                                         *)
(* Seven specifications share the variables:                                *)
(*   SpecCtx   threads acquiring contexts concurrently, and the teardown   *)
(*   SpecRun   one thread's KernelRunner.run, with its nested baseline run *)
(*   SpecRequest  a single call of run from start to end, run fairly       *)
(*   SpecCmp   _compare_results applied to two run results                 *)
(*   SpecVerify the correctness check of run applied to host arrays        *)
(*   SpecPipe  compile, disassemble and assemble over a file system        *)
(*   SpecPipeTwo  the same stages with two kernels in one output directory *)
(***************************************************************************)
EXTENDS Integers, Sequences, FiniteSets, TLC

\* ------------------------------------------------------------------ bounds
NumThreads == 2
MaxCalls == 2
MaxInstances == 2
MaxDirectCleanups == 1

Threads == 1..NumThreads
\* The thread that imports the module, constructs the runner and, at
\* interpreter exit, runs the atexit handlers.
MainThread == 1
\* "no context": hasattr(_thread_local, 'context') is false.
NoCtx == 0

VARIABLES
    \* ---- execution-context manager (class attributes and driver state)
    cleanup_registered,   \* KernelRunner._cleanup_registered
    atexit_handlers,      \* how many times atexit.register was called
    instances,            \* KernelRunner objects constructed
    thread_local,         \* KernelRunner._thread_local.context, per slot
    contexts_to_cleanup,  \* KernelRunner._contexts_to_cleanup
    ctx_creator,          \* ctx_creator[c]: the thread that made context c
    ctx_stack,            \* the driver's context stack of each thread
    tpc,                  \* where each thread is in its execution request
    local_ctx,            \* the local `ctx` of _ensure_cuda_context
    calls,                \* _ensure_cuda_context calls begun by each thread
    acquired,             \* threads whose acquire has completed at least once
    ever_registered,      \* contexts ever appended to the registry
    op_ctx,               \* the context a thread's device operation runs under
    phase,                \* "running" | "exiting"
    td_active,            \* a pass of _cleanup_all_contexts is under way
    td_i,                 \* its loop index into contexts_to_cleanup
    pop_calls,            \* pop_calls[c]: ctx.pop() calls issued for c
    pass_pops,            \* ctx.pop() calls issued by the current/last pass
    pop_raised,           \* pop_raised[c]: the pass's ctx.pop() for c raised
    td_error,             \* what the last pass let out to its caller
    passes,               \* completed passes of _cleanup_all_contexts
    atexit_runs,          \* passes started by the atexit machinery
    direct_cleanups,      \* passes started by a direct call
    \* ---- benchmark harness (one thread's calls of KernelRunner.run)
    rstack,               \* the active invocations of run, innermost last
    dev_bufs,             \* device buffers allocated and not yet freed
    inv_log,              \* per invocation: how it ended, which failure it met
    run_out,              \* what the last outermost call gave its caller
    runs,                 \* outermost calls of run made so far
    \* ---- comparison engine
    cmp_new, cmp_old,     \* the two results handed to _compare_results
    cmp_out,              \* what the call gave back
    ver_in,               \* n and the host arrays a, b, c after the copy back
    ver_out,              \* the result dict after lines 117-147
    \* ---- pipeline stages
    out_dir,              \* the configured output directory
    fs,                   \* the file system: path -> content
    last_op,              \* the latest stage operation and how it ended
    tool_env              \* which external tools are installed

ctxVars == <<cleanup_registered, atexit_handlers, instances, thread_local,
             contexts_to_cleanup, ctx_creator, ctx_stack, tpc, local_ctx,
             calls, acquired, ever_registered, op_ctx, phase, td_active,
             td_i, pop_calls, pass_pops, pop_raised,
                   td_error, passes, atexit_runs,
             direct_cleanups>>

runVars == <<rstack, dev_bufs, inv_log, run_out, runs>>
cmpVars == <<cmp_new, cmp_old, cmp_out, ver_in, ver_out>>
pipeVars == <<out_dir, fs, last_op, tool_env>>
notCtx == <<runVars, cmpVars, pipeVars>>

vars == <<ctxVars, runVars, cmpVars, pipeVars>>

\* ------------------------------------------------------------- sequences
Last(s) == s[Len(s)]
Front(s) == SubSeq(s, 1, Len(s) - 1)
Range(s) == {s[i] : i \in 1..Len(s)}

\* ------------------------------------------------- execution-context manager

InitCtx ==
    /\ cleanup_registered = FALSE
    /\ atexit_handlers = 0
    /\ instances = 0
    /\ thread_local = [s \in Threads |-> NoCtx]
    /\ contexts_to_cleanup = <<>>
    /\ ctx_creator = <<>>
    /\ ctx_stack = [w \in Threads |-> <<>>]
    /\ tpc = [w \in Threads |-> "idle"]
    /\ local_ctx = [w \in Threads |-> NoCtx]
    /\ calls = [w \in Threads |-> 0]
    /\ acquired = {}
    /\ ever_registered = {}
    /\ op_ctx = [w \in Threads |-> NoCtx]
    /\ phase = "running"
    /\ td_active = FALSE
    /\ td_i = 1
    /\ pop_calls = <<>>
    /\ pass_pops = <<>>
    /\ pop_raised = <<>>
    /\ td_error = "none"
    /\ passes = 0
    /\ atexit_runs = 0
    /\ direct_cleanups = 0

\* A plain class attribute instead of threading.local(): one slot for all.
SharedSlot(w) == MainThread
\* threading.local(): attribute `context` is per thread.
LocalSlot(w) == w

\* The hasattr test on a misspelt attribute: never true.
HasContextNever(w) == FALSE
\* hasattr(self._thread_local, 'context')
HasContext(w) == thread_local[LocalSlot(w)] # NoCtx

\* self._thread_local.context
LocalContext(w) == thread_local[LocalSlot(w)]

\* atexit.register on every construction.
HandlersAfterInitAlways(registered, handlers) == handlers + 1
\* __init__: register the cleanup handler unless already registered.
HandlersAfterInit(registered, handlers) ==
    IF ~registered THEN handlers + 1 ELSE handlers

\* A cleanup that forgets to clear the list.
RegistryKept(registry) == registry
\* cls._contexts_to_cleanup.clear()
RegistryAfterCleanup(registry) == <<>>

\* KernelRunner.__init__, called by the process owner.
Construct ==
    /\ phase = "running"
    /\ instances < MaxInstances
    /\ instances' = instances + 1
    /\ atexit_handlers' = HandlersAfterInit(cleanup_registered, atexit_handlers)
    /\ cleanup_registered' = TRUE
    /\ UNCHANGED <<thread_local, contexts_to_cleanup, ctx_creator, ctx_stack,
                   tpc, local_ctx, calls, acquired, ever_registered, op_ctx,
                   phase, td_active, td_i, pop_calls, pass_pops, pop_raised,
                   td_error, passes,
                   atexit_runs, direct_cleanups>>
    /\ UNCHANGED notCtx

ctxShared == <<cleanup_registered, atexit_handlers, instances, phase,
               td_active, td_i, pass_pops, pop_raised,
                   td_error, passes, atexit_runs,
               direct_cleanups>>

\* _ensure_cuda_context, line 41: the hasattr test.
EnsureCheck(w) ==
    /\ phase = "running"
    /\ instances > 0
    /\ tpc[w] = "idle"
    /\ calls[w] < MaxCalls
    /\ calls' = [calls EXCEPT ![w] = @ + 1]
    /\ tpc' = [tpc EXCEPT ![w] = IF HasContext(w) THEN "push" ELSE "make"]
    /\ UNCHANGED <<thread_local, contexts_to_cleanup, ctx_creator, ctx_stack,
                   local_ctx, acquired, ever_registered, op_ctx, pop_calls>>
    /\ UNCHANGED ctxShared
    /\ UNCHANGED notCtx

\* Lines 42-44: cuda.init(), Device(0), make_context(). The new context is
\* pushed on the calling thread's stack; a failure raises out of the call.
MakeContext(w) ==
    /\ phase = "running"
    /\ tpc[w] = "make"
    /\ \E ok \in BOOLEAN :
        IF ok
        THEN /\ ctx_creator' = Append(ctx_creator, w)
             /\ pop_calls' = Append(pop_calls, 0)
             /\ local_ctx' = [local_ctx EXCEPT ![w] = Len(ctx_creator) + 1]
             /\ ctx_stack' = [ctx_stack EXCEPT
                                ![w] = Append(@, Len(ctx_creator) + 1)]
             /\ tpc' = [tpc EXCEPT ![w] = "set"]
        ELSE /\ tpc' = [tpc EXCEPT ![w] = "idle"]
             /\ UNCHANGED <<ctx_creator, pop_calls, local_ctx, ctx_stack>>
    /\ UNCHANGED <<thread_local, contexts_to_cleanup, calls, acquired,
                   ever_registered, op_ctx>>
    /\ UNCHANGED ctxShared
    /\ UNCHANGED notCtx

\* Line 45: self._thread_local.context = ctx
SetLocal(w) ==
    /\ phase = "running"
    /\ tpc[w] = "set"
    /\ thread_local' = [thread_local EXCEPT ![LocalSlot(w)] = local_ctx[w]]
    /\ tpc' = [tpc EXCEPT ![w] = "append"]
    /\ UNCHANGED <<contexts_to_cleanup, ctx_creator, ctx_stack, local_ctx,
                   calls, acquired, ever_registered, op_ctx, pop_calls>>
    /\ UNCHANGED ctxShared
    /\ UNCHANGED notCtx

\* Line 46: self._contexts_to_cleanup.append(ctx); the call returns.
Register(w) ==
    /\ phase = "running"
    /\ tpc[w] = "append"
    /\ contexts_to_cleanup' = Append(contexts_to_cleanup, local_ctx[w])
    /\ ever_registered' = ever_registered \cup {local_ctx[w]}
    /\ acquired' = acquired \cup {w}
    /\ tpc' = [tpc EXCEPT ![w] = "ready"]
    /\ UNCHANGED <<thread_local, ctx_creator, ctx_stack, local_ctx, calls,
                   op_ctx, pop_calls>>
    /\ UNCHANGED ctxShared
    /\ UNCHANGED notCtx

\* Lines 49-52: push the thread's context; cuda.LogicError is swallowed.
\* Whether the driver accepts a push of the context that is already current
\* is the library's choice; both outcomes are modelled.
Push(w) ==
    /\ phase = "running"
    /\ tpc[w] = "push"
    /\ \E ok \in BOOLEAN :
        ctx_stack' = [ctx_stack EXCEPT
                        ![w] = IF ok THEN Append(@, LocalContext(w)) ELSE @]
    /\ acquired' = acquired \cup {w}
    /\ tpc' = [tpc EXCEPT ![w] = "ready"]
    /\ UNCHANGED <<thread_local, contexts_to_cleanup, ctx_creator, local_ctx,
                   calls, ever_registered, op_ctx, pop_calls>>
    /\ UNCHANGED ctxShared
    /\ UNCHANGED notCtx

\* The context that is current for thread w: the top of its stack.
ActiveContext(w) == IF ctx_stack[w] = <<>> THEN NoCtx ELSE Last(ctx_stack[w])

\* The body of run after line 62: device operations under the current context.
DeviceOp(w) ==
    /\ phase = "running"
    /\ tpc[w] = "ready"
    /\ op_ctx' = [op_ctx EXCEPT ![w] = ActiveContext(w)]
    /\ tpc' = [tpc EXCEPT ![w] = "busy"]
    /\ UNCHANGED <<thread_local, contexts_to_cleanup, ctx_creator, ctx_stack,
                   local_ctx, calls, acquired, ever_registered, pop_calls>>
    /\ UNCHANGED ctxShared
    /\ UNCHANGED notCtx

\* The request returns (or raises) to its caller.
Return(w) ==
    /\ phase = "running"
    /\ tpc[w] = "busy"
    /\ op_ctx' = [op_ctx EXCEPT ![w] = NoCtx]
    /\ tpc' = [tpc EXCEPT ![w] = "idle"]
    /\ UNCHANGED <<thread_local, contexts_to_cleanup, ctx_creator, ctx_stack,
                   local_ctx, calls, acquired, ever_registered, pop_calls>>
    /\ UNCHANGED ctxShared
    /\ UNCHANGED notCtx

ctxThreads == <<thread_local, contexts_to_cleanup, ctx_creator, ctx_stack,
                tpc, local_ctx, calls, acquired, ever_registered, op_ctx,
                pop_calls>>

\* Interpreter exit: the interpreter joins its threads before it runs the
\* atexit handlers, so no request is under way.
Exit ==
    /\ phase = "running"
    /\ \A w \in Threads : tpc[w] = "idle"
    /\ phase' = "exiting"
    /\ UNCHANGED <<cleanup_registered, atexit_handlers, instances, td_active,
                   td_i, pass_pops, pop_raised,
                   td_error, passes, atexit_runs, direct_cleanups>>
    /\ UNCHANGED ctxThreads
    /\ UNCHANGED notCtx

\* atexit runs the handler once per registration (lines 26, 30).
AtExitPass ==
    /\ phase = "exiting"
    /\ ~td_active
    /\ atexit_runs < atexit_handlers
    /\ atexit_runs' = atexit_runs + 1
    /\ td_active' = TRUE
    /\ td_i' = 1
    /\ pass_pops' = [c \in 1..Len(ctx_creator) |-> 0]
    /\ pop_raised' = [c \in 1..Len(ctx_creator) |-> FALSE]
    /\ td_error' = "none"
    /\ UNCHANGED <<cleanup_registered, atexit_handlers, instances, phase,
                   passes, direct_cleanups>>
    /\ UNCHANGED ctxThreads
    /\ UNCHANGED notCtx

\* KernelRunner._cleanup_all_contexts() called directly during shutdown.
DirectCleanup ==
    /\ phase = "exiting"
    /\ ~td_active
    /\ direct_cleanups < MaxDirectCleanups
    /\ direct_cleanups' = direct_cleanups + 1
    /\ td_active' = TRUE
    /\ td_i' = 1
    /\ pass_pops' = [c \in 1..Len(ctx_creator) |-> 0]
    /\ pop_raised' = [c \in 1..Len(ctx_creator) |-> FALSE]
    /\ td_error' = "none"
    /\ UNCHANGED <<cleanup_registered, atexit_handlers, instances, phase,
                   passes, atexit_runs>>
    /\ UNCHANGED ctxThreads
    /\ UNCHANGED notCtx

\* ctx.pop() on the calling thread: it raises when the thread's stack is
\* empty, and it may raise when the driver refuses the release.
PopRaises(w, ok) == ~ok \/ ctx_stack[w] = <<>>

\* A handler that names one exception type lets the others through.
EscapesNarrowHandler(raised) == raised
\* Lines 35-36: a bare `except: pass` catches whatever ctx.pop() raised.
Escapes(raised) == FALSE

\* Lines 32-36, one iteration: ctx.pop() inside try/except. pop() acts on the
\* calling thread's stack; what it raises is caught and the loop goes on. An
\* exception that escaped the handler would end the pass before line 37.
TeardownPop ==
    /\ td_active
    /\ td_i <= Len(contexts_to_cleanup)
    /\ LET c == contexts_to_cleanup[td_i] IN
        \E ok \in BOOLEAN :
            LET raised == PopRaises(MainThread, ok) IN
            /\ pop_calls' = [pop_calls EXCEPT ![c] = @ + 1]
            /\ pass_pops' = [pass_pops EXCEPT ![c] = @ + 1]
            /\ pop_raised' = [pop_raised EXCEPT ![c] = raised]
            /\ ctx_stack' = [ctx_stack EXCEPT
                    ![MainThread] = IF raised THEN @ ELSE Front(@)]
            /\ IF Escapes(raised)
               THEN /\ td_error' = "pop raised"
                    /\ td_active' = FALSE
                    /\ td_i' = 1
               ELSE /\ td_i' = td_i + 1
                    /\ UNCHANGED <<td_error, td_active>>
    /\ UNCHANGED <<cleanup_registered, atexit_handlers, instances, phase,
                   passes, atexit_runs, direct_cleanups,
                   thread_local, contexts_to_cleanup, ctx_creator, tpc,
                   local_ctx, calls, acquired, ever_registered, op_ctx>>
    /\ UNCHANGED notCtx

\* Line 37: the loop is over; clear the registry.
TeardownClear ==
    /\ td_active
    /\ td_i > Len(contexts_to_cleanup)
    /\ contexts_to_cleanup' = RegistryAfterCleanup(contexts_to_cleanup)
    /\ td_active' = FALSE
    /\ td_i' = 1
    /\ passes' = passes + 1
    /\ UNCHANGED <<cleanup_registered, atexit_handlers, instances, phase,
                   pass_pops, pop_raised,
                   td_error, atexit_runs, direct_cleanups, thread_local,
                   ctx_creator, ctx_stack, tpc, local_ctx, calls, acquired,
                   ever_registered, op_ctx, pop_calls>>
    /\ UNCHANGED notCtx

\* -------------------------------------------------------------- run results

\* Python's None, as the value of results["error"].
None == "<None>"
\* The empty dict {}.
EmptyDict == [k \in {} |-> 0]
\* dict.update(new): the keys of `new` win.
Update(d, new) == new @@ d

\* Timing and error values are whole numbers of a unit: milliseconds for the
\* timings, 1e-7 for the deviations, so that the tolerance 1e-6 is 10.
MaxMean == 2
Tolerance == 10
ErrSet == {0, Tolerance - 1, Tolerance}

\* Exact fractions stand for the floats: [num, den] in lowest terms, den > 0.
Abs(x) == IF x < 0 THEN -x ELSE x
RECURSIVE GCD(_, _)
GCD(a, b) == IF b = 0 THEN a ELSE GCD(b, a % b)
Rat(n, d) ==
    LET g == GCD(Abs(n), Abs(d)) IN [num |-> n \div g, den |-> d \div g]

\* The statistics of the recorded times: min <= mean <= max, all equal when
\* the deviation is zero, and the deviation at most half the range.
TimingStats ==
    {t \in [mean_ms : 1..MaxMean, std_ms : 0..MaxMean,
            min_ms : 1..MaxMean, max_ms : 1..MaxMean] :
        /\ t.min_ms <= t.mean_ms /\ t.mean_ms <= t.max_ms
        /\ (t.std_ms = 0) <=> (t.min_ms = t.max_ms)
        /\ (t.min_ms = t.mean_ms) <=> (t.max_ms = t.mean_ms)
        /\ 2 * t.std_ms <= t.max_ms - t.min_ms}

\* Lines 91-98: the result dict before the try block.
InitialResults(kernel) ==
    [kernel |-> kernel, kernel_name |-> "vector_add", success |-> FALSE,
     error |-> None, timing |-> EmptyDict, correctness |-> EmptyDict]

\* correctness.passed computed with <= instead of <.
PassedInclusive(max_error) == max_error <= Tolerance
\* Line 143: float(max_error) < 1e-6
Passed(max_error) == max_error < Tolerance

\* A sample for every element.
SampleCountAll(n) == n
\* Line 121: min(5, int(n))
SampleCount(n) == IF n < 5 THEN n ELSE 5

\* Lines 133-147: results.update({...}) on success.
SuccessUpdate(results, stats, max_error, n) ==
    Update(results,
           [success |-> TRUE,
            timing |-> stats,
            correctness |-> [max_error |-> max_error,
                             passed |-> Passed(max_error)],
            samples |-> [i \in 1..SampleCount(n) |-> [idx |-> i - 1]],
            test_size |-> n])

\* An update that records the message and leaves the success flag alone.
FailureUpdateErrorOnly(results, msg) ==
    Update(results, [error |-> msg])
\* Line 154: results.update({"success": False, "error": str(e)})
FailureUpdate(results, msg) ==
    Update(results, [success |-> FALSE, error |-> msg])

\* ---------------------------------------------------------- comparison engine

Returned(v) == [kind |-> "return", value |-> v]
Raised(type, msg) == [kind |-> "raise", type |-> type, msg |-> msg]

\* The guard written with `or`: one success is enough to go on.
EitherSucceeded(new_results, old_results) ==
    new_results["success"] \/ old_results["success"]
\* Line 186: new_results["success"] and old_results["success"]
BothSucceeded(new_results, old_results) ==
    new_results["success"] /\ old_results["success"]

\* The operands of the division swapped.
SpeedupInverted(new_results, old_results) ==
    Rat(new_results["timing"]["mean_ms"], old_results["timing"]["mean_ms"])
\* Line 189: old mean / new mean
Speedup(new_results, old_results) ==
    Rat(old_results["timing"]["mean_ms"], new_results["timing"]["mean_ms"])

\* Line 192: (speedup - 1) * 100
SpeedupPercent(speedup) == Rat((speedup.num - speedup.den) * 100, speedup.den)

\* Lines 195-198: `and` of the two flags.
BothCorrect(new_results, old_results) ==
    new_results["correctness"]["passed"] /\ old_results["correctness"]["passed"]

\* _compare_results, lines 183-199. A key missing from a dict raises KeyError.
CompareResults(new_results, old_results) ==
    IF ~BothSucceeded(new_results, old_results)
    THEN Returned([error |-> "One or both kernels failed"])
    ELSE IF \/ "mean_ms" \notin DOMAIN old_results["timing"]
            \/ "mean_ms" \notin DOMAIN new_results["timing"]
    THEN Raised("KeyError", "'mean_ms'")
    ELSE IF \/ "passed" \notin DOMAIN new_results["correctness"]
            \/ /\ new_results["correctness"]["passed"]
               /\ "passed" \notin DOMAIN old_results["correctness"]
    THEN Raised("KeyError", "'passed'")
    ELSE Returned(
        [speedup |-> Speedup(new_results, old_results),
         speedup_percent |-> SpeedupPercent(Speedup(new_results, old_results)),
         original_ms |-> old_results["timing"]["mean_ms"],
         modified_ms |-> new_results["timing"]["mean_ms"],
         both_correct |-> BothCorrect(new_results, old_results)])

\* The results run can hand to a comparison: a success; a failure caught
\* before the success update; a failure caught after it (the baseline call
\* raised), which keeps the timing and correctness of the success.
NSet == {3, 1024}
ErrorMessages == {"device operation failed"}
SuccessResults(kernel) ==
    {SuccessUpdate(InitialResults(kernel), t, e, n) :
        t \in TimingStats, e \in ErrSet, n \in {1024}}
FailedResults(kernel) ==
    {FailureUpdate(r, m) :
        r \in {InitialResults(kernel)} \cup SuccessResults(kernel),
        m \in ErrorMessages}
RunResults(kernel) == SuccessResults(kernel) \cup FailedResults(kernel)

NotCalled == [kind |-> "none"]

InitVerifyIdle ==
    /\ ver_in = [n |-> 0, a |-> <<>>, b |-> <<>>, c |-> <<>>]
    /\ ver_out = NotCalled

InitCmpIdle ==
    /\ cmp_new = InitialResults("k_new.cubin")
    /\ cmp_old = InitialResults("k.cubin")
    /\ cmp_out = NotCalled
    /\ InitVerifyIdle

InitCmp ==
    /\ cmp_new \in RunResults("k_new.cubin")
    /\ cmp_old \in RunResults("k.cubin")
    /\ cmp_out = NotCalled
    /\ InitVerifyIdle

\* self._compare_results(results, compare_results)
Compare ==
    /\ cmp_out = NotCalled
    /\ cmp_out' = CompareResults(cmp_new, cmp_old)
    /\ UNCHANGED <<cmp_new, cmp_old, ver_in, ver_out>>
    /\ UNCHANGED <<ctxVars, runVars, pipeVars>>

\* --------------------------------------------------------- correctness check

\* Host arrays are sequences of whole numbers of the unit of the deviations;
\* element i of the code is element i + 1 here.
MaxN == 6
\* The inputs, as np.random.rand fills them: all low, all high, alternating.
HostArrays(n) ==
    {[i \in 1..n |-> 0], [i \in 1..n |-> 1], [i \in 1..n |-> i % 2]}
\* What the kernel left in c: a + b, off by one unit at no or one index.
DeviceOutputs(a, b, n) ==
    {[i \in 1..n |-> a[i] + b[i] + (IF i = j THEN d ELSE 0)] :
        j \in 0..n, d \in {-1, 1}}

RECURSIVE MaxOf(_, _)
MaxOf(s, i) ==
    IF i = 1 THEN s[1] ELSE IF s[i] > MaxOf(s, i - 1) THEN s[i] ELSE MaxOf(s, i - 1)

\* Line 117: expected = a + b
Expected(a, b) == [i \in 1..Len(a) |-> a[i] + b[i]]
\* Line 118: np.max(np.abs(c - expected))
MaxError(c, expected) ==
    MaxOf([i \in 1..Len(c) |-> Abs(c[i] - expected[i])], Len(c))

\* Lines 121-131: the first sample_count elements, in index order.
Samples(a, b, c, expected, n) ==
    [j \in 1..SampleCount(n) |->
        [idx |-> j - 1, a |-> a[j], b |-> b[j], out |-> c[j],
         expected |-> expected[j], error |-> Abs(c[j] - expected[j])]]

\* Lines 117-147 on the arrays of one run; np.max of an empty array raises
\* ValueError, which line 153 catches.
VerifyUpdate(results, stats, a, b, c, n) ==
    IF n = 0
    THEN FailureUpdate(results, "zero-size array to reduction operation")
    ELSE Update(SuccessUpdate(results, stats, MaxError(c, Expected(a, b)), n),
                [samples |-> Samples(a, b, c, Expected(a, b), n)])

InitVerify ==
    /\ \E n \in 0..MaxN : \E a, b \in HostArrays(n) :
       \E c \in DeviceOutputs(a, b, n) :
        ver_in = [n |-> n, a |-> a, b |-> b, c |-> c]
    /\ ver_out = NotCalled

Verify ==
    /\ ver_out = NotCalled
    /\ \E stats \in TimingStats :
        ver_out' = VerifyUpdate(InitialResults("k.cubin"), stats,
                                ver_in.a, ver_in.b, ver_in.c, ver_in.n)
    /\ UNCHANGED <<ver_in, cmp_new, cmp_old, cmp_out>>
    /\ UNCHANGED <<ctxVars, runVars, pipeVars>>

\* ----------------------------------------------------------- benchmark harness

\* Line 108: range(100)
Repetitions == 100
MaxRuns == 2

NoExc == "<no exception>"

\* A new activation of run(cubin_file, args_str, compare_with). Besides its
\* locals it counts the device calls it has completed: host-to-device
\* copies, the warmup launch and its synchronize, timed launches and their
\* synchronizes, device-to-host copies.
Frame(inv, kernel, compare, args_ok, n) ==
    [inv |-> inv, pc |-> "ensure", kernel |-> kernel, compare |-> compare,
     args_ok |-> args_ok, n |-> n, i |-> 0, times |-> 0,
     results |-> NotCalled, exc |-> NoExc, baseline |-> NotCalled,
     htods |-> 0, warmups |-> 0, wsyncs |-> 0, launches |-> 0, syncs |-> 0,
     dtohs |-> 0]

Top == rstack[Len(rstack)]
WithTop(f) == [rstack EXCEPT ![Len(rstack)] = f]
AtPc(pcs) == phase = "running" /\ rstack # <<>> /\ Top.pc \in pcs

InitRunIdle ==
    /\ rstack = <<>>
    /\ dev_bufs = {}
    /\ inv_log = <<>>
    /\ run_out = NotCalled
    /\ runs = 0

\* The invocation goes on to its next statement.
Advance(f) ==
    /\ rstack' = WithTop(f)
    /\ UNCHANGED <<inv_log, run_out>>

\* A statement inside the try block (lines 100-151) raises: control goes to
\* the except clause of the same invocation.
FailInTry(msg) ==
    /\ rstack' = WithTop([Top EXCEPT !.pc = "except", !.exc = msg])
    /\ inv_log' = [inv_log EXCEPT ![Top.inv].failure = msg]
    /\ UNCHANGED run_out

\* A statement outside the try block (lines 62-89) raises: the invocation ends
\* at once; the exception reaches the caller, which for the baseline call is
\* line 150, inside the caller's try block.
RaiseOut(msg) ==
    /\ IF Len(rstack) = 1
       THEN /\ inv_log' = [inv_log EXCEPT
                    ![Top.inv] = [status |-> "raised", failure |-> msg]]
            /\ rstack' = <<>>
            /\ run_out' = Raised("Exception", msg)
       ELSE /\ inv_log' = [inv_log EXCEPT
                    ![Top.inv] = [status |-> "raised", failure |-> msg],
                    ![rstack[Len(rstack) - 1].inv].failure = msg]
            /\ rstack' = [Front(rstack) EXCEPT
                    ![Len(rstack) - 1] = [@ EXCEPT !.pc = "except", !.exc = msg]]
            /\ UNCHANGED run_out

\* runner.run(cubin_file, args, compare_with) from main.py or ui.py.
RunCall ==
    /\ phase = "running"
    /\ instances > 0
    /\ rstack = <<>>
    /\ runs < MaxRuns
    /\ \E compare \in BOOLEAN, args_ok \in BOOLEAN, n \in NSet :
        rstack' = <<Frame(Len(inv_log) + 1, "k_new.cubin", compare, args_ok, n)>>
    /\ inv_log' = Append(inv_log,
                         [status |-> "active", failure |-> NoExc])
    /\ run_out' = NotCalled
    /\ runs' = runs + 1
    /\ UNCHANGED <<dev_bufs, ctxVars, cmpVars, pipeVars>>

ctxRest == <<cleanup_registered, atexit_handlers, instances, tpc, op_ctx,
             phase, td_active, td_i, pass_pops, pop_raised,
                   td_error, passes, atexit_runs,
             direct_cleanups>>

\* Line 62: self._ensure_cuda_context(), lines 39-52, in the calling thread.
RunEnsure ==
    /\ AtPc({"ensure"})
    /\ calls' = [calls EXCEPT ![MainThread] = @ + 1]
    /\ IF HasContext(MainThread)
       THEN /\ \E ok \in BOOLEAN :
                ctx_stack' = [ctx_stack EXCEPT ![MainThread] =
                    IF ok THEN Append(@, LocalContext(MainThread)) ELSE @]
            /\ acquired' = acquired \cup {MainThread}
            /\ Advance([Top EXCEPT !.pc = "parse"])
            /\ UNCHANGED <<thread_local, contexts_to_cleanup, ctx_creator,
                           local_ctx, ever_registered, pop_calls>>
       ELSE \E ok \in BOOLEAN :
            IF ok
            THEN LET c == Len(ctx_creator) + 1 IN
                 /\ ctx_creator' = Append(ctx_creator, MainThread)
                 /\ pop_calls' = Append(pop_calls, 0)
                 /\ local_ctx' = [local_ctx EXCEPT ![MainThread] = c]
                 /\ ctx_stack' = [ctx_stack EXCEPT ![MainThread] = Append(@, c)]
                 /\ thread_local' =
                        [thread_local EXCEPT ![LocalSlot(MainThread)] = c]
                 /\ contexts_to_cleanup' = Append(contexts_to_cleanup, c)
                 /\ ever_registered' = ever_registered \cup {c}
                 /\ acquired' = acquired \cup {MainThread}
                 /\ Advance([Top EXCEPT !.pc = "parse"])
            ELSE /\ RaiseOut("cuda.init failed")
                 /\ UNCHANGED <<thread_local, contexts_to_cleanup, ctx_creator,
                                ctx_stack, local_ctx, acquired,
                                ever_registered, pop_calls>>
    /\ UNCHANGED <<dev_bufs, runs, ctxRest, cmpVars, pipeVars>>

\* Lines 64-65: parse_kernel_args(args_str or '{"n": 1024}'); json.loads raises
\* on text that is not JSON.
RunParseArgs ==
    /\ AtPc({"parse"})
    /\ IF Top.args_ok
       THEN Advance([Top EXCEPT !.pc = "load"])
       ELSE RaiseOut("invalid kernel arguments")
    /\ UNCHANGED <<dev_bufs, runs, ctxVars, cmpVars, pipeVars>>

\* Lines 67-73: _load_cubin (open, module_from_buffer; a failure is printed
\* and re-raised, lines 175-177) and module.get_function.
RunLoadCubin ==
    /\ AtPc({"load"})
    /\ \E ok \in BOOLEAN :
        IF ok
        THEN Advance([Top EXCEPT !.pc = "alloc_a"])
        ELSE RaiseOut("CUBIN load failed")
    /\ UNCHANGED <<dev_bufs, runs, ctxVars, cmpVars, pipeVars>>

\* The copies of the inputs left out: the launch follows the allocations.
NextAllocSkipsCopy(pc) ==
    CASE pc = "alloc_a" -> "alloc_b"
      [] pc = "alloc_b" -> "alloc_c"
      [] pc = "alloc_c" -> "warmup"
NextAlloc(pc) ==
    CASE pc = "alloc_a" -> "alloc_b"
      [] pc = "alloc_b" -> "alloc_c"
      [] pc = "alloc_c" -> "htod_a"
BufferOf(pc) ==
    CASE pc = "alloc_a" -> "a_gpu"
      [] pc = "alloc_b" -> "b_gpu"
      [] pc = "alloc_c" -> "c_gpu"

\* Lines 84-86: cuda.mem_alloc, one buffer at a time, before the try block.
RunAlloc ==
    /\ AtPc({"alloc_a", "alloc_b", "alloc_c"})
    /\ \E ok \in BOOLEAN :
        IF ok
        THEN /\ dev_bufs' = dev_bufs \cup
                    {[inv |-> Top.inv, buf |-> BufferOf(Top.pc)]}
             /\ Advance([Top EXCEPT !.pc = NextAlloc(Top.pc)])
        ELSE /\ RaiseOut("mem_alloc failed")
             /\ UNCHANGED dev_bufs
    /\ UNCHANGED <<runs, ctxVars, cmpVars, pipeVars>>

\* Lines 88-98: cuda.memcpy_htod of a, then of b, then the result dict.
RunHtod ==
    /\ AtPc({"htod_a", "htod_b"})
    /\ \E ok \in BOOLEAN :
        IF ok
        THEN IF Top.pc = "htod_a"
             THEN Advance([Top EXCEPT !.pc = "htod_b", !.htods = @ + 1])
             ELSE Advance([Top EXCEPT !.pc = "warmup", !.htods = @ + 1,
                                      !.results = InitialResults(Top.kernel)])
        ELSE RaiseOut("memcpy_htod failed")
    /\ UNCHANGED <<dev_bufs, runs, ctxVars, cmpVars, pipeVars>>

\* Lines 102-103: the warmup launch, the first statement of the try block.
RunWarmup ==
    /\ AtPc({"warmup"})
    /\ \E ok \in BOOLEAN :
        IF ok
        THEN Advance([Top EXCEPT !.pc = "warmup_sync", !.warmups = @ + 1])
        ELSE FailInTry("kernel launch failed")
    /\ UNCHANGED <<dev_bufs, runs, ctxVars, cmpVars, pipeVars>>

\* Lines 104-107: synchronize after the warmup; times = [].
RunWarmupSync ==
    /\ AtPc({"warmup_sync"})
    /\ \E ok \in BOOLEAN :
        IF ok
        THEN Advance([Top EXCEPT !.pc = "launch", !.i = 0, !.times = 0,
                                 !.wsyncs = @ + 1])
        ELSE FailInTry("synchronize failed")
    /\ UNCHANGED <<dev_bufs, runs, ctxVars, cmpVars, pipeVars>>

\* Lines 108-111: one timed launch of the loop over range(100).
RunLaunch ==
    /\ AtPc({"launch"})
    /\ Top.i < Repetitions
    /\ \E ok \in BOOLEAN :
        IF ok
        THEN Advance([Top EXCEPT !.pc = "sync", !.launches = @ + 1])
        ELSE FailInTry("kernel launch failed")
    /\ UNCHANGED <<dev_bufs, runs, ctxVars, cmpVars, pipeVars>>

\* A loop that runs its body once.
AfterSyncOnce(i) == "dtoh"
\* Line 108: for _ in range(100): the next iteration, or the end of the loop.
AfterSync(i) == IF i + 1 < Repetitions THEN "launch" ELSE "dtoh"

\* Lines 112-113: synchronize, then append the elapsed time; the loop ends
\* after the last repetition.
RunSync ==
    /\ AtPc({"sync"})
    /\ \E ok \in BOOLEAN :
        IF ok
        THEN Advance([Top EXCEPT
                !.pc = AfterSync(Top.i),
                !.i = @ + 1,
                !.syncs = @ + 1,
                !.times = @ + 1])
        ELSE FailInTry("synchronize failed")
    /\ UNCHANGED <<dev_bufs, runs, ctxVars, cmpVars, pipeVars>>

\* Line 116: cuda.memcpy_dtoh(c, c_gpu)
RunDtoh ==
    /\ AtPc({"dtoh"})
    /\ \E ok \in BOOLEAN :
        IF ok
        THEN Advance([Top EXCEPT !.pc = "verify", !.dtohs = @ + 1])
        ELSE FailInTry("memcpy_dtoh failed")
    /\ UNCHANGED <<dev_bufs, runs, ctxVars, cmpVars, pipeVars>>

\* Lines 117-149: the deviation from a + b, the samples, results.update, and
\* the test of compare_with.
RunVerify ==
    /\ AtPc({"verify"})
    /\ \E stats \in TimingStats, max_error \in ErrSet :
        Advance([Top EXCEPT
            !.pc = IF Top.compare THEN "call_baseline" ELSE "finally",
            !.results = SuccessUpdate(Top.results, stats, max_error, Top.n)])
    /\ UNCHANGED <<dev_bufs, runs, ctxVars, cmpVars, pipeVars>>

\* The baseline run given the caller's baseline as its own.
BaselineCompareInherited(compare) == compare
\* Line 150: self.run(compare_with, args_str) passes no third argument, so
\* the callee's compare_with is the default None (line 58).
BaselineCompare(compare) == FALSE

\* Line 150: self.run(compare_with, args_str): a nested invocation, with no
\* compare_with of its own.
RunCallBaseline ==
    /\ AtPc({"call_baseline"})
    /\ rstack' = Append(WithTop([Top EXCEPT !.pc = "await_baseline"]),
                        Frame(Len(inv_log) + 1, "k.cubin",
                              BaselineCompare(Top.compare),
                              Top.args_ok, Top.n))
    /\ inv_log' = Append(inv_log,
                         [status |-> "active", failure |-> NoExc])
    /\ UNCHANGED <<run_out, dev_bufs, runs, ctxVars, cmpVars, pipeVars>>

\* Line 151: results['comparison'] = self._compare_results(results, compare_results)
RunCompare ==
    /\ AtPc({"compare"})
    /\ LET out == CompareResults(Top.results, Top.baseline) IN
        IF out.kind = "return"
        THEN Advance([Top EXCEPT
                !.pc = "finally",
                !.results = Update(@, [comparison |-> out.value])])
        ELSE FailInTry(out.msg)
    /\ UNCHANGED <<dev_bufs, runs, ctxVars, cmpVars, pipeVars>>

\* Lines 153-154: except Exception as e: results.update(...)
RunExcept ==
    /\ AtPc({"except"})
    /\ Advance([Top EXCEPT !.pc = "finally",
                           !.results = FailureUpdate(@, Top.exc)])
    /\ UNCHANGED <<dev_bufs, runs, ctxVars, cmpVars, pipeVars>>

\* A finally clause that frees only the output buffer.
BuffersFreedOutputOnly(inv) == {[inv |-> inv, buf |-> "c_gpu"]}
\* Lines 156-158: a_gpu.free(); b_gpu.free(); c_gpu.free()
BuffersFreed(inv) ==
    {[inv |-> inv, buf |-> b] : b \in {"a_gpu", "b_gpu", "c_gpu"}}

\* Lines 155-158: the finally clause.
RunFinally ==
    /\ AtPc({"finally"})
    /\ dev_bufs' = dev_bufs \ BuffersFreed(Top.inv)
    /\ Advance([Top EXCEPT !.pc = "return"])
    /\ UNCHANGED <<runs, ctxVars, cmpVars, pipeVars>>

\* Line 160: return results, to line 150 of the caller or to the outside.
RunReturn ==
    /\ AtPc({"return"})
    /\ inv_log' = [inv_log EXCEPT
            ![Top.inv] = [status |-> "returned", failure |-> @.failure]]
    /\ IF Len(rstack) = 1
       THEN /\ rstack' = <<>>
            /\ run_out' = Returned(Top.results)
       ELSE /\ rstack' = [Front(rstack) EXCEPT
                    ![Len(rstack) - 1] =
                        [@ EXCEPT !.pc = "compare", !.baseline = Top.results]]
            /\ UNCHANGED run_out
    /\ UNCHANGED <<dev_bufs, runs, ctxVars, cmpVars, pipeVars>>

\* The process has constructed one runner (main.py line 72, ui.py line 19).
InitRun ==
    /\ cleanup_registered = TRUE
    /\ atexit_handlers = 1
    /\ instances = 1
    /\ thread_local = [s \in Threads |-> NoCtx]
    /\ contexts_to_cleanup = <<>>
    /\ ctx_creator = <<>>
    /\ ctx_stack = [w \in Threads |-> <<>>]
    /\ tpc = [w \in Threads |-> "idle"]
    /\ local_ctx = [w \in Threads |-> NoCtx]
    /\ calls = [w \in Threads |-> 0]
    /\ acquired = {}
    /\ ever_registered = {}
    /\ op_ctx = [w \in Threads |-> NoCtx]
    /\ phase = "running"
    /\ td_active = FALSE
    /\ td_i = 1
    /\ pop_calls = <<>>
    /\ pass_pops = <<>>
    /\ pop_raised = <<>>
    /\ td_error = "none"
    /\ passes = 0
    /\ atexit_runs = 0
    /\ direct_cleanups = 0
    /\ InitRunIdle

\* The interpreter exits when the thread is not inside run.
ExitIdle == rstack = <<>> /\ Exit

NextRun ==
    \/ RunCall
    \/ RunEnsure
    \/ RunParseArgs
    \/ RunLoadCubin
    \/ RunAlloc
    \/ RunHtod
    \/ RunWarmup
    \/ RunWarmupSync
    \/ RunLaunch
    \/ RunSync
    \/ RunDtoh
    \/ RunVerify
    \/ RunCallBaseline
    \/ RunCompare
    \/ RunExcept
    \/ RunFinally
    \/ RunReturn
    \/ ExitIdle
    \/ AtExitPass
    \/ TeardownPop
    \/ TeardownClear

\* The first execute request of the process.
RunCallOnce == runs = 0 /\ RunCall

NextRequest ==
    \/ RunCallOnce
    \/ RunEnsure
    \/ RunParseArgs
    \/ RunLoadCubin
    \/ RunAlloc
    \/ RunHtod
    \/ RunWarmup
    \/ RunWarmupSync
    \/ RunLaunch
    \/ RunSync
    \/ RunDtoh
    \/ RunVerify
    \/ RunCallBaseline
    \/ RunCompare
    \/ RunExcept
    \/ RunFinally
    \/ RunReturn
    \/ ExitIdle
    \/ AtExitPass
    \/ TeardownPop
    \/ TeardownClear

\* -------------------------------------------------------------- pipeline paths

\* A path is a sequence of tokens: "/" separates components, "." is a dot,
\* every other token stands for a non-empty piece of text with neither.
\* Path.name: the last component.
RECURSIVE LastIndexOf(_, _, _)
LastIndexOf(s, tok, i) ==
    IF i = 0 THEN 0 ELSE IF s[i] = tok THEN i ELSE LastIndexOf(s, tok, i - 1)
Name(path) ==
    SubSeq(path, LastIndexOf(path, "/", Len(path)) + 1, Len(path))
\* Path.parent
Parent(path) == SubSeq(path, 1, LastIndexOf(path, "/", Len(path)) - 1)

\* name.split('.')[0] in place of Path.stem: "k.v2.cubin" gives "k".
StemToFirstDot(name) ==
    LET first == CHOOSE i \in 1..(Len(name) + 1) :
                    /\ (i <= Len(name) => name[i] = ".")
                    /\ \A j \in 1..(i - 1) : name[j] # "."
    IN  IF first > 1 THEN SubSeq(name, 1, first - 1) ELSE name
\* Path.stem: the name without its last suffix; a dot that is the first or the
\* last character of the name starts no suffix.
Stem(name) ==
    LET i == LastIndexOf(name, ".", Len(name)) IN
    IF 0 < i - 1 /\ i < Len(name) THEN SubSeq(name, 1, i - 1) ELSE name
\* Path.suffix
Suffix(name) ==
    LET i == LastIndexOf(name, ".", Len(name)) IN
    IF 0 < i - 1 /\ i < Len(name) THEN SubSeq(name, i, Len(name)) ELSE <<>>

\* output_dir / name
Join(dir, name) == dir \o <<"/">> \o name

StartsWith(s, prefix) ==
    Len(prefix) <= Len(s) /\ SubSeq(s, 1, Len(prefix)) = prefix

\* compiler.py lines 35-37
PtxFile(cuda_file, output_dir) ==
    Join(output_dir, Stem(Name(cuda_file)) \o <<".", "ptx">>)
CubinFile(cuda_file, output_dir) ==
    Join(output_dir, Stem(Name(cuda_file)) \o <<".", "cubin">>)

\* The readable text written beside the input instead of into output_dir.
SassFileBesideInput(cubin_path, output_dir) ==
    Join(Parent(cubin_path), Stem(Name(cubin_path)) \o <<".", "sass">>)
\* disassembler.py line 21
SassFile(cubin_path, output_dir) ==
    Join(output_dir, Stem(Name(cubin_path)) \o <<".", "sass">>)
\* disassembler.py line 22
CuasmFile(cubin_path, output_dir) ==
    Join(output_dir, Stem(Name(cubin_path)) \o <<".", "cuasm">>)
\* disassembler.py line 35
BackupFile(cubin_path, output_dir) ==
    Join(output_dir, Stem(Name(cubin_path)) \o <<".", "original", ".", "cubin">>)

\* The re-encoded binary named after the stem alone: it replaces K.cubin.
AssembledFileSameStem(cuasm_path, output_dir) ==
    Join(output_dir, Stem(Name(cuasm_path)) \o <<".", "cubin">>)
\* assembler.py line 21
AssembledFile(cuasm_path, output_dir) ==
    Join(output_dir, Stem(Name(cuasm_path)) \o <<"_new", ".", "cubin">>)

\* ------------------------------------------------------------- pipeline stages

\* How many tokens longer than its root's a stem handed to a stage may be.
MaxStemGrowth == 1
Tools == {"nvcc", "nvdisasm", "cuasm"}
OutDirs == {<<"build">>, <<"in">>}
RootStems == {<<"k">>, <<"k", ".", "v2">>}

NoErr == [type |-> "none"]
\* An exception: its Python type, the code that raised it, and what its
\* message or attributes carry.
Err(type, origin, carries) ==
    [type |-> type, origin |-> origin, carries |-> carries]
\* assembler.py line 24: FileNotFoundError(f"Could not find {cuasm_path}. ...")
MissingArtifact(stage) == Err("FileNotFoundError", stage, {"path"})

\* A file: what it holds, and where it comes from: the stem of the artifact it
\* descends from, the stage that wrote it, how many encodes lie between the
\* root and it, and whether a backup copy does.
File(kind, root, by, trips, via_backup) ==
    [kind |-> kind, root |-> root, by |-> by, trips |-> trips,
     via_backup |-> via_backup]
DirEntry == File("dir", <<>>, "mkdir", 0, FALSE)
Write(f, path, content) == (path :> content) @@ f
\* An existence test that always passes.
ExistsAlways(f, path) == TRUE
\* Path.exists()
Exists(f, path) == path \in DOMAIN f
IsKind(f, path, kind) == path \in DOMAIN f /\ f[path].kind = kind
\* The stem of the artifact a file descends from.
RootOf(f, path) == IF path \in DOMAIN f THEN f[path].root ELSE Stem(Name(path))
TripsOf(f, path) == IF path \in DOMAIN f THEN f[path].trips ELSE 0
ViaBackup(f, path) == IF path \in DOMAIN f THEN f[path].via_backup ELSE FALSE

\* utils.py lines 7-11: ensure_dir
EnsureDir(f, dir) == IF dir \in DOMAIN f THEN f ELSE Write(f, dir, DirEntry)

\* The exits a tool can take: it succeeds only on an input it can read.
Exits(tool, readable) ==
    IF tool \in tool_env /\ readable THEN {"ok", "fail"} ELSE {"fail"}

\* utils.py lines 13-25: run_command. subprocess.run raises FileNotFoundError
\* when the binary is not installed, and nothing catches it; a non-zero exit
\* becomes RuntimeError.
ToolMissing(tool) == Err("FileNotFoundError", tool, {"filename"})
\* A non-zero exit reported under the type of the missing-binary error.
CommandFailedAsNotFound(tool) == Err("FileNotFoundError", tool, {"exit_code", "stderr"})
\* Line 25: RuntimeError(f"Command failed with exit code {e.returncode}:\n{e.stderr}")
CommandFailed(tool) == Err("RuntimeError", tool, {"exit_code", "stderr"})
RunCommand(tool, readable, choice) ==
    IF tool \notin tool_env THEN ToolMissing(tool)
    ELSE IF readable /\ choice = "ok" THEN NoErr
    ELSE CommandFailed(tool)

\* What the latest stage call did: its input, the paths it computed and wrote,
\* the tools it handed to run_command, in order, and the error it raised.
Op(op, input, root, computed, written, err, invoked) ==
    [op |-> op, input |-> input, root |-> root, computed |-> computed,
     written |-> written, err |-> err, invoked |-> invoked]

InitPipeIdle ==
    /\ out_dir = <<"build">>
    /\ fs = EmptyDict
    /\ last_op = Op("none", <<>>, <<>>, {}, {}, NoErr, <<>>)
    /\ tool_env = {}

\* A source file and a prebuilt binary of the same kernel, outside or inside
\* the output directory; any set of the tools installed.
InitPipe ==
    /\ out_dir \in OutDirs
    /\ tool_env \in SUBSET Tools
    /\ \E k \in RootStems :
        fs = Write(Write(Write(Write(EmptyDict,
                <<"src">>, DirEntry),
                <<"in">>, DirEntry),
                Join(<<"src">>, k \o <<".", "cu">>), File("source", k, "user", 0, FALSE)),
                Join(<<"in">>, k \o <<".", "cubin">>), File("cubin", k, "user", 0, FALSE))
    /\ last_op = Op("none", <<>>, <<>>, {}, {}, NoErr, <<>>)

\* Two kernels side by side, k.cu and k_new.cu, with a prebuilt binary of the
\* first; every tool installed; the default output directory.
InitPipeTwo ==
    /\ out_dir = <<"build">>
    /\ tool_env = Tools
    /\ fs = Write(Write(Write(Write(Write(EmptyDict,
                <<"src">>, DirEntry),
                <<"in">>, DirEntry),
                <<"src", "/", "k", ".", "cu">>,
                    File("source", <<"k">>, "user", 0, FALSE)),
                <<"src", "/", "k", "_new", ".", "cu">>,
                    File("source", <<"k", "_new">>, "user", 0, FALSE)),
                <<"in", "/", "k", ".", "cubin">>,
                    File("cubin", <<"k">>, "user", 0, FALSE))
    /\ last_op = Op("none", <<>>, <<>>, {}, {}, NoErr, <<>>)

\* The paths a caller may hand to a stage: any file, and the paths where the
\* stages would put the binary and the editable text of a source, present or not.
InputPaths ==
    LET files == {p \in DOMAIN fs : fs[p].kind # "dir"}
        sources == {p \in DOMAIN fs : fs[p].kind = "source"}
    IN  {p \in files : Len(Stem(Name(p))) <= Len(fs[p].root) + MaxStemGrowth}
        \cup {CubinFile(p, out_dir) : p \in sources}
        \cup {CuasmFile(p, out_dir) : p \in sources}

\* Compiler.compile and _compile_cuda, compiler.py lines 10-60.
Compile ==
    /\ \E input_file \in InputPaths :
       \E c1, c2 \in Exits("nvcc", IsKind(fs, input_file, "source")) :
        LET f0 == EnsureDir(fs, out_dir)
            root == RootOf(fs, input_file)
            ptx == PtxFile(input_file, out_dir)
            cubin == CubinFile(input_file, out_dir)
            readable == IsKind(fs, input_file, "source")
            r1 == RunCommand("nvcc", readable, c1)
            r2 == RunCommand("nvcc", readable, c2)
            f1 == Write(f0, ptx, File("ptx", root, "compile", 0, FALSE))
            f2 == Write(f1, cubin, File("cubin", root, "compile", 0, FALSE))
        IN
        IF Suffix(Name(input_file)) = <<".", "cu">>
        THEN IF r1 # NoErr
             THEN /\ fs' = f0
                  /\ last_op' = Op("compile", input_file, root, {ptx, cubin}, {}, r1,
                                   <<"nvcc">>)
             ELSE IF r2 # NoErr
             THEN /\ fs' = f1
                  /\ last_op' = Op("compile", input_file, root, {ptx, cubin}, {ptx}, r2,
                                   <<"nvcc", "nvcc">>)
             ELSE /\ fs' = f2
                  /\ last_op' = Op("compile", input_file, root, {ptx, cubin},
                                   {ptx, cubin}, NoErr, <<"nvcc", "nvcc">>)
        ELSE /\ fs' = f0
             /\ last_op' = Op("compile", input_file, root, {}, {},
                    IF Suffix(Name(input_file)) = <<".", "py">>
                    THEN Err("NotImplementedError", "_compile_triton", {})
                    ELSE Err("ValueError", "compile", {"suffix"}),
                    <<>>)
    /\ UNCHANGED <<out_dir, tool_env, ctxVars, runVars, cmpVars>>

\* Disassembler.disassemble, disassembler.py lines 8-45.
Disassemble ==
    /\ \E cubin_path \in InputPaths :
       \E c1 \in Exits("nvdisasm", IsKind(fs, cubin_path, "cubin")),
          c2 \in Exits("cuasm", IsKind(fs, cubin_path, "cubin")) :
        LET f0 == EnsureDir(fs, out_dir)
            root == RootOf(fs, cubin_path)
            sass == SassFile(cubin_path, out_dir)
            cuasm == CuasmFile(cubin_path, out_dir)
            backup == BackupFile(cubin_path, out_dir)
            readable == IsKind(fs, cubin_path, "cubin")
            r1 == RunCommand("nvdisasm", readable, c1)
            r2 == RunCommand("cuasm", readable, c2)
            trips == TripsOf(fs, cubin_path)
            via == ViaBackup(fs, cubin_path)
            f1 == Write(f0, sass, File("sass", root, "disassemble", trips, via))
            f2 == Write(f1, backup, File("cubin", root, "disassemble", trips, TRUE))
            f3 == Write(f2, cuasm, File("cuasm", root, "disassemble", trips, via))
        IN
        IF r1 # NoErr
        THEN /\ fs' = f0
             /\ last_op' = Op("disassemble", cubin_path, root, {sass, cuasm}, {}, r1,
                              <<"nvdisasm">>)
        ELSE IF r2 # NoErr
        THEN /\ fs' = f2
             /\ last_op' = Op("disassemble", cubin_path, root,
                              {sass, cuasm, backup}, {sass, backup}, r2,
                              <<"nvdisasm", "cuasm">>)
        ELSE /\ fs' = f3
             /\ last_op' = Op("disassemble", cubin_path, root,
                              {sass, cuasm, backup}, {sass, backup, cuasm}, NoErr,
                              <<"nvdisasm", "cuasm">>)
    /\ UNCHANGED <<out_dir, tool_env, ctxVars, runVars, cmpVars>>

\* Assembler.assemble, assembler.py lines 8-34.
Assemble ==
    /\ \E cuasm_path \in InputPaths :
       \E c \in Exits("cuasm", IsKind(fs, cuasm_path, "cuasm")) :
        LET f0 == EnsureDir(fs, out_dir)
            root == RootOf(fs, cuasm_path)
            cubin == AssembledFile(cuasm_path, out_dir)
            r == RunCommand("cuasm", IsKind(fs, cuasm_path, "cuasm"), c)
            f1 == Write(f0, cubin,
                        File("cubin", root, "assemble",
                             TripsOf(fs, cuasm_path) + 1, ViaBackup(fs, cuasm_path)))
        IN
        IF ~Exists(f0, cuasm_path)
        THEN /\ fs' = f0
             /\ last_op' = Op("assemble", cuasm_path, root, {cubin}, {},
                              MissingArtifact("assemble"), <<>>)
        ELSE IF r # NoErr
        THEN /\ fs' = f0
             /\ last_op' = Op("assemble", cuasm_path, root, {cubin}, {}, r, <<"cuasm">>)
        ELSE /\ fs' = f1
             /\ last_op' = Op("assemble", cuasm_path, root, {cubin}, {cubin}, NoErr,
                              <<"cuasm">>)
    /\ UNCHANGED <<out_dir, tool_env, ctxVars, runVars, cmpVars>>

NextPipe ==
    \/ Compile
    \/ Disassemble
    \/ Assemble

NextCtx ==
    \/ Construct
    \/ \E w \in Threads : EnsureCheck(w)
    \/ \E w \in Threads : MakeContext(w)
    \/ \E w \in Threads : SetLocal(w)
    \/ \E w \in Threads : Register(w)
    \/ \E w \in Threads : Push(w)
    \/ \E w \in Threads : DeviceOp(w)
    \/ \E w \in Threads : Return(w)
    \/ Exit
    \/ AtExitPass
    \/ DirectCleanup
    \/ TeardownPop
    \/ TeardownClear

NextCmp == Compare

NextVerify == Verify

\* Each specification runs one component; the state of the others stays as
\* it is at start.
InitSpecCtx == InitCtx /\ InitRunIdle /\ InitCmpIdle /\ InitPipeIdle
InitSpecRun == InitRun /\ InitCmpIdle /\ InitPipeIdle
InitSpecCmp == InitCtx /\ InitRunIdle /\ InitCmp /\ InitPipeIdle
InitSpecPipe == InitCtx /\ InitRunIdle /\ InitCmpIdle /\ InitPipe
InitSpecPipeTwo == InitCtx /\ InitRunIdle /\ InitCmpIdle /\ InitPipeTwo
InitSpecVerify ==
    /\ InitCtx /\ InitRunIdle /\ InitPipeIdle
    /\ cmp_new = InitialResults("k_new.cubin")
    /\ cmp_old = InitialResults("k.cubin")
    /\ cmp_out = NotCalled
    /\ InitVerify

SpecCtx == InitSpecCtx /\ [][NextCtx]_vars
SpecRun == InitSpecRun /\ [][NextRun]_vars
\* One execute request from its call to its end, and the exit of the process.
\* The thread inside run keeps running: Python executes the next statement.
SpecRequest == InitSpecRun /\ [][NextRequest]_vars /\ WF_vars(NextRequest)
SpecCmp == InitSpecCmp /\ [][NextCmp]_vars
SpecPipe == InitSpecPipe /\ [][NextPipe]_vars
SpecPipeTwo == InitSpecPipeTwo /\ [][NextPipe]_vars
SpecVerify == InitSpecVerify /\ [][NextVerify]_vars

\* ------------------------------------------- claims on the context manager

MidAcquire(w) == tpc[w] \in {"make", "set", "append"}
CreatedBy(w) == {c \in 1..Len(ctx_creator) : ctx_creator[c] = w}
RegisteredBy(w) ==
    {i \in 1..Len(contexts_to_cleanup) :
        /\ contexts_to_cleanup[i] \in 1..Len(ctx_creator)
        /\ ctx_creator[contexts_to_cleanup[i]] = w}

\* C3: acquiring is idempotent with respect to registration. In every
\* interleaving of _ensure_cuda_context calls, made through any number of
\* KernelRunner instances, a thread owns at most one context; before the
\* teardown, a thread that is not in the middle of an acquire has exactly one
\* registry entry if it has acquired at least once and none otherwise, and
\* when no thread is in the middle of an acquire the registry holds as many
\* contexts as there are threads that have acquired.
C3_AcquireRegistersOnce ==
    /\ \A w \in Threads : Cardinality(CreatedBy(w)) <= 1
    /\ (passes = 0 /\ ~td_active) =>
        /\ \A w \in Threads :
            ~MidAcquire(w) =>
                Cardinality(RegisteredBy(w)) = IF w \in acquired THEN 1 ELSE 0
        /\ (\A w \in Threads : ~MidAcquire(w)) =>
                Len(contexts_to_cleanup) = Cardinality(acquired)

\* C3 witness: two threads have acquired, one of them twice, through two
\* instances, and the registry holds two contexts.
C3_Witness ==
    /\ instances = 2
    /\ acquired = {1, 2}
    /\ calls[1] = 2
    /\ tpc[1] = "ready" /\ tpc[2] = "ready"
    /\ Len(contexts_to_cleanup) = 2

\* C4: the teardown releases every registered context exactly once. The
\* cleanup handler is registered at most once however many instances are
\* constructed; no context ever gets more than one ctx.pop(); the first
\* completed pass has issued exactly one ctx.pop() for every context that was
\* registered and none for any other; after a pass the registry is empty, and
\* a further pass issues no ctx.pop() at all.
C4_TeardownReleasesOnce ==
    /\ atexit_handlers <= 1
    /\ \A c \in 1..Len(pop_calls) : pop_calls[c] <= 1
    /\ passes >= 1 => (td_active \/ contexts_to_cleanup = <<>>)
    /\ (passes >= 1 /\ td_active) => contexts_to_cleanup = <<>>
    /\ (passes >= 1 /\ ~td_active) =>
        /\ \A c \in ever_registered : pop_calls[c] = 1
        /\ \A c \in 1..Len(pass_pops) :
            pass_pops[c] = IF passes = 1 /\ c \in ever_registered THEN 1 ELSE 0

\* C4 witness: two instances were constructed, two threads registered a
\* context each, and two teardown passes have completed.
C4_Witness ==
    /\ instances = 2
    /\ Cardinality(ever_registered) = 2
    /\ passes = 2
    /\ ~td_active
    /\ \A c \in ever_registered : pop_calls[c] = 1

\* C5: contexts are never shared across threads. Every context on a thread's
\* driver stack, and so every context that is ever current for it, was made by
\* that thread; a device operation runs under a context its thread made, and
\* two threads in a device operation at the same time run under different
\* contexts.
C5_ContextsNotShared ==
    /\ \A w \in Threads : \A i \in 1..Len(ctx_stack[w]) :
        /\ ctx_stack[w][i] \in 1..Len(ctx_creator)
        /\ ctx_creator[ctx_stack[w][i]] = w
    /\ \A w \in Threads :
        tpc[w] = "busy" =>
            /\ op_ctx[w] \in 1..Len(ctx_creator)
            /\ ctx_creator[op_ctx[w]] = w
    /\ \A w1, w2 \in Threads :
        (w1 # w2 /\ tpc[w1] = "busy" /\ tpc[w2] = "busy") =>
            op_ctx[w1] # op_ctx[w2]

\* C5 witness: two threads are in a device operation at the same time, one of
\* them in its second request (its context was pushed, not made).
C5_Witness ==
    /\ tpc[1] = "busy" /\ tpc[2] = "busy"
    /\ calls[2] = 2
    /\ op_ctx[1] # NoCtx /\ op_ctx[2] # NoCtx

\* ------------------------------------------- claims on the benchmark harness

\* C1: every device buffer an invocation of run allocated has been freed by
\* the time that invocation returns or raises, on every exit path: a buffer
\* still allocated belongs to an invocation that is still active.
C1_BuffersFreedOnExit ==
    \A b \in dev_bufs : inv_log[b.inv].status = "active"

\* The failures of the execution of a run: loading the binary, allocating a
\* buffer, copying an input, launching, synchronizing, copying the output.
ExecutionFailures ==
    {"CUBIN load failed", "mem_alloc failed", "memcpy_htod failed",
     "kernel launch failed", "synchronize failed", "memcpy_dtoh failed"}

\* C2: a failure during the execution of a run is never propagated. No
\* invocation of run ends by raising such a failure, and an invocation in
\* which one occurred returns a result with success = False and an error
\* message that is neither None nor empty.
C2_FailureIsData ==
    /\ \A i \in 1..Len(inv_log) :
        inv_log[i].failure \in ExecutionFailures => inv_log[i].status # "raised"
    /\ AtPc({"return"}) =>
        (inv_log[Top.inv].failure \in ExecutionFailures =>
            /\ Top.results["success"] = FALSE
            /\ Top.results["error"] \notin {None, ""})

\* ------------------------------------------ claims on the comparison engine

NumericFields ==
    {"speedup", "speedup_percent", "original_ms", "modified_ms", "both_correct"}

\* C6: when at least one of the two results has success = False,
\* _compare_results returns, without raising, a payload that holds an error
\* and none of the numeric fields; a payload with a numeric field is returned
\* only when both results have success = True.
C6_FailedInputGivesErrorPayload ==
    cmp_out # NotCalled =>
        /\ (~cmp_new["success"] \/ ~cmp_old["success"]) =>
            /\ cmp_out.kind = "return"
            /\ "error" \in DOMAIN cmp_out.value
            /\ DOMAIN cmp_out.value \cap NumericFields = {}
        /\ (/\ cmp_out.kind = "return"
            /\ DOMAIN cmp_out.value \cap NumericFields # {}) =>
            (cmp_new["success"] /\ cmp_old["success"])

\* C6 witness: the candidate succeeded, the baseline failed after its timing
\* was populated, and the comparison returned the error payload.
C6_Witness ==
    /\ cmp_out # NotCalled
    /\ cmp_new["success"] /\ ~cmp_old["success"]
    /\ "mean_ms" \in DOMAIN cmp_old["timing"]
    /\ cmp_out = Returned([error |-> "One or both kernels failed"])

\* C7: for two successful results the comparison returns the five numeric
\* fields with speedup = baseline mean / candidate mean (above 1 exactly when
\* the candidate is faster), speedup_percent = (speedup - 1) * 100,
\* original_ms the baseline mean, modified_ms the candidate mean and
\* both_correct the conjunction of the two passed flags; baseline mean 2 and
\* candidate mean 1 give speedup 2 and speedup_percent 100. Fractions are
\* compared by cross-multiplication.
C7_SpeedupFormula ==
    (cmp_out # NotCalled /\ cmp_new["success"] /\ cmp_old["success"]) =>
        /\ cmp_out.kind = "return"
        /\ DOMAIN cmp_out.value = NumericFields
        /\ LET v == cmp_out.value
               b == cmp_old["timing"]["mean_ms"]
               c == cmp_new["timing"]["mean_ms"]
           IN  /\ v.speedup.den > 0
               /\ v.speedup.num * c = b * v.speedup.den
               /\ (v.speedup.num > v.speedup.den) <=> (c < b)
               /\ v.speedup_percent.den > 0
               /\ v.speedup_percent.num * v.speedup.den =
                    (v.speedup.num - v.speedup.den) * 100 * v.speedup_percent.den
               /\ v.original_ms = b
               /\ v.modified_ms = c
               /\ v.both_correct = (/\ cmp_new["correctness"]["passed"]
                                    /\ cmp_old["correctness"]["passed"])
               /\ (b = 2 /\ c = 1) =>
                    /\ v.speedup = [num |-> 2, den |-> 1]
                    /\ v.speedup_percent = [num |-> 100, den |-> 1]

\* C7 witness: baseline mean 2, candidate mean 1, one of the two runs not
\* passing: speedup 2, speedup_percent 100, both_correct false.
C7_Witness ==
    /\ cmp_out # NotCalled
    /\ cmp_out.kind = "return"
    /\ cmp_new["success"] /\ cmp_old["success"]
    /\ cmp_old["timing"]["mean_ms"] = 2 /\ cmp_new["timing"]["mean_ms"] = 1
    /\ cmp_new["correctness"]["passed"] /\ ~cmp_old["correctness"]["passed"]
    /\ cmp_out.value.speedup = [num |-> 2, den |-> 1]
    /\ cmp_out.value.speedup_percent = [num |-> 100, den |-> 1]
    /\ cmp_out.value.both_correct = FALSE

\* ------------------------------------------------ claims on the pipeline stages

StageWritten(path) ==
    path \in DOMAIN fs /\ fs[path].by \in {"compile", "disassemble", "assemble"}

\* C8: naming invariant. After any sequence of compile, decode and encode
\* operations, every path the latest operation computed or wrote lies directly
\* in the configured output directory and has a name that starts with the stem
\* K of the artifact its input descends from, and so does every file a stage
\* has written.
C8_NamingInvariant ==
    /\ \A p \in last_op.computed \cup last_op.written :
        /\ Parent(p) = out_dir
        /\ StartsWith(Name(p), last_op.root)
    /\ \A p \in DOMAIN fs :
        StageWritten(p) =>
            /\ Parent(p) = out_dir
            /\ StartsWith(Name(p), fs[p].root)

\* C8 witness: for a kernel whose stem holds a dot, compiled and decoded into
\* a directory other than the input's, all six kinds of artifact are there:
\* intermediate, binary, backup copy, readable text, editable text and
\* re-encoded binary.
C8_Witness ==
    \E k \in RootStems :
        /\ Len(k) > 1
        /\ out_dir = <<"build">>
        /\ \A ext \in {<<".", "ptx">>, <<".", "cubin">>, <<".", "sass">>,
                       <<".", "cuasm">>, <<".", "original", ".", "cubin">>,
                       <<"_new", ".", "cubin">>} :
            StageWritten(Join(out_dir, k \o ext))
        /\ fs[Join(out_dir, k \o <<".", "cubin">>)].by = "compile"

\* C9 as stated: the editable text produced by decode and the binary produced
\* by encoding it both have exactly the stem of their root binary.
C9_StemEqualsRoot ==
    \A p \in DOMAIN fs :
        (\/ fs[p].by = "assemble"
         \/ (fs[p].by = "disassemble" /\ fs[p].kind = "cuasm" /\ ~fs[p].via_backup))
            => Stem(Name(p)) = fs[p].root

RECURSIVE NewTimes(_)
NewTimes(r) == IF r = 0 THEN <<>> ELSE NewTimes(r - 1) \o <<"_new">>

\* C9 as amended: the editable text produced by decoding a binary has exactly
\* that binary's stem; the binary produced by encoding an editable text has
\* that text's stem followed by "_new"; so, on the chain of re-encoded
\* binaries, a file r encodes away from a root binary of stem K has the stem K
\* followed by r times "_new", which K only begins.
C9_StemGrowsByNew ==
    /\ (last_op.op = "disassemble" /\ last_op.err = NoErr) =>
        \A p \in last_op.written :
            fs[p].kind = "cuasm" => Stem(Name(p)) = Stem(Name(last_op.input))
    /\ (last_op.op = "assemble" /\ last_op.err = NoErr) =>
        /\ last_op.written # {}
        /\ \A p \in last_op.written :
            Stem(Name(p)) = Stem(Name(last_op.input)) \o <<"_new">>
    /\ \A p \in DOMAIN fs :
        (/\ StageWritten(p)
         /\ fs[p].kind \in {"cuasm", "cubin"}
         /\ ~fs[p].via_backup
         /\ fs[p].by # "compile") =>
            /\ Stem(Name(p)) = fs[p].root \o NewTimes(fs[p].trips)
            /\ fs[p].by = "assemble" => fs[p].trips >= 1

\* C9 witness: two decode-encode round trips: the second re-encoded binary,
\* K_new_new, is there, next to the editable text K_new it was encoded from.
C9_Witness ==
    \E k \in RootStems :
        /\ StageWritten(Join(out_dir, k \o <<"_new", "_new", ".", "cubin">>))
        /\ StageWritten(Join(out_dir, k \o <<"_new", ".", "cuasm">>))
        /\ fs[Join(out_dir, k \o <<"_new", "_new", ".", "cubin">>)].trips = 2

\* C10: decoding a binary path that does not exist raises the missing-input
\* error, the FileNotFoundError a stage raises itself for its input and not
\* an error of a tool, and writes no file.
C10_MissingInputIsArtifactNotFound ==
    (last_op.op = "disassemble" /\ last_op.input \notin DOMAIN fs) =>
        /\ last_op.err.type = "FileNotFoundError"
        /\ last_op.err.origin \notin Tools
        /\ last_op.written = {}
        /\ \A p \in last_op.computed : p \notin DOMAIN fs

\* C11: encode does not run without its editable-text input on disk. In every
\* call of assemble whose input path is missing, the missing-artifact error
\* is raised, no tool is handed to run_command, and no binary is created or
\* changed; and in every call that hands the encoder to run_command, the
\* input path existed when the call began.
C11_EncodeNeedsEditableText ==
    [][(last_op'.op = "assemble") =>
        /\ (last_op'.input \notin DOMAIN fs) =>
            /\ last_op'.err = MissingArtifact("assemble")
            /\ last_op'.invoked = <<>>
            /\ last_op'.written = {}
            /\ \A p \in DOMAIN fs' :
                fs'[p].kind = "cubin" => (p \in DOMAIN fs /\ fs[p] = fs'[p])
        /\ ("cuasm" \in Range(last_op'.invoked)) =>
            last_op'.input \in DOMAIN fs
      ]_vars

\* C11 witness: with the encoder installed, assemble was called on an
\* editable-text path that is not there, and raised the missing-artifact
\* error without a tool call.
C11_Witness ==
    /\ last_op.op = "assemble"
    /\ "cuasm" \in tool_env
    /\ last_op.input \notin DOMAIN fs
    /\ Suffix(Name(last_op.input)) = <<".", "cuasm">>
    /\ last_op.err = MissingArtifact("assemble")
    /\ last_op.invoked = <<>>

\* C12: the tool invoker reports failures under distinguishable kinds. An
\* error of a tool that is installed (a non-zero exit) is the tool-failure
\* kind and carries the exit code and the captured stderr; an error of a tool
\* that is not installed is of a kind that is neither the tool-failure kind
\* nor the kind of the missing-input-artifact error; a zero exit is no error.
C12_ToolErrorsDistinguishable ==
    LET e == last_op.err IN
    (e # NoErr /\ e.origin \in Tools) =>
        /\ (e.origin \in tool_env) =>
            /\ e.type = CommandFailed(e.origin).type
            /\ {"exit_code", "stderr"} \subseteq e.carries
        /\ (e.origin \notin tool_env) =>
            /\ e.type # CommandFailed(e.origin).type
            /\ e.type # MissingArtifact("assemble").type

\* --------------------------------------------- claims on the correctness check

DevicePcs ==
    {"load", "alloc_a", "alloc_b", "alloc_c", "htod_a", "htod_b", "warmup",
     "warmup_sync", "launch", "sync", "dtoh"}
\* The calling thread has a context and it is the current one.
ContextCurrent(w) ==
    /\ HasContext(w)
    /\ ctx_stack[w] # <<>>
    /\ Last(ctx_stack[w]) = LocalContext(w)

StepsOrdered ==
    \A k \in 1..Len(rstack) :
        LET f == rstack[k] IN
        /\ f.pc \in DevicePcs => ContextCurrent(MainThread)
        /\ f.htods <= 2
        /\ (f.warmups + f.launches > 0) => f.htods = 2
        /\ f.launches > 0 => (f.warmups = 1 /\ f.wsyncs = 1)
        /\ f.launches <= Repetitions
        /\ f.dtohs <= 1
        /\ f.dtohs = 1 => (f.launches = Repetitions /\ f.syncs = Repetitions)

\* C14: within one invocation of run the steps are ordered. The thread's
\* context is current at every device call; both host-to-device copies are
\* complete before the first launch (the warmup); the one device-to-host copy
\* comes after the last timed launch and its synchronize; and no launch
\* happens before the input copies or after the output copy.
C14_RunStepsOrdered ==
    /\ []StepsOrdered
    /\ [][\A k \in 1..Len(rstack) :
            (k <= Len(rstack') /\ rstack'[k].inv = rstack[k].inv) =>
                /\ (rstack'[k].warmups + rstack'[k].launches
                        > rstack[k].warmups + rstack[k].launches) =>
                    (rstack[k].htods = 2 /\ rstack[k].dtohs = 0
                        /\ ContextCurrent(MainThread))
                /\ (rstack'[k].dtohs > rstack[k].dtohs) =>
                    rstack[k].launches = Repetitions
                /\ (rstack'[k].htods > rstack[k].htods) =>
                    (rstack[k].warmups = 0 /\ ContextCurrent(MainThread))
       ]_vars

\* C14 witness: an invocation has copied its output back, after all its
\* launches.
C14_Witness ==
    /\ rstack # <<>>
    /\ Top.pc = "verify"
    /\ Top.dtohs = 1
    /\ Top.htods = 2
    /\ Top.launches = Repetitions

Succeeded(f) ==
    /\ f.results # NotCalled
    /\ f.results["success"]

\* C15: a successful run has made exactly one warmup launch, followed by a
\* synchronize, then exactly 100 timed launches, each followed by a
\* synchronize after which its time is recorded: the list of times has 100
\* entries, one per timed launch and none for the warmup, and the output was
\* copied to the host exactly once.
C15_WarmupThenHundredTimed ==
    \A k \in 1..Len(rstack) :
        LET f == rstack[k] IN
        /\ f.warmups <= 1 /\ f.wsyncs <= f.warmups
        /\ f.times = f.syncs
        /\ f.syncs <= f.launches /\ f.launches <= f.syncs + 1
        /\ (f.pc = "launch") => (f.wsyncs = 1 /\ f.syncs = f.launches)
        /\ (f.wsyncs = 0) => f.times = 0
        /\ Succeeded(f) =>
            /\ f.warmups = 1 /\ f.wsyncs = 1
            /\ f.launches = 100 /\ f.syncs = 100 /\ f.times = 100
            /\ f.dtohs = 1

\* C15 witness: an invocation is about to return a result dict with
\* success = True, with its hundred times recorded.
C15_Witness ==
    /\ rstack # <<>>
    /\ Top.pc = "return"
    /\ Succeeded(Top)
    /\ Top.times = 100

\* C16: re-entering a stage never disturbs the artifacts of another stage.
\* Whenever a call changes a file that a stage has written, the file was
\* written by that same stage and is of the same kind: no encode changes a
\* binary written by compile or a backup copy written by decode, of any
\* kernel, and likewise for compile and decode.
C16_StagesKeepToTheirArtifacts ==
    [][\A p \in DOMAIN fs :
        (StageWritten(p) /\ fs'[p] # fs[p]) =>
            /\ fs'[p].by = fs[p].by
            /\ fs'[p].kind = fs[p].kind
      ]_vars

\* ------------------------------------------- claims on a run with a baseline

RequestBounded ==
    /\ Len(rstack) <= 2
    /\ \A k \in 1..Len(rstack) :
        /\ k > 1 => (~rstack[k].compare /\ rstack[k].kernel = "k.cubin")
        /\ rstack[k].inv = rstack[1].inv + k - 1
    /\ rstack # <<>> => Len(inv_log) <= rstack[1].inv + 1
    /\ Len(inv_log) <= 2 * runs
    /\ (rstack # <<>> /\ Top.pc = "compare") =>
        /\ Len(rstack) = 1
        /\ Top.compare
        /\ Succeeded(Top)
        /\ Len(inv_log) = Top.inv + 1
        /\ inv_log[Top.inv + 1].status = "returned"
        /\ Top.results["kernel"] = "k_new.cubin"
        /\ Top.baseline # NotCalled
        /\ Top.baseline["kernel"] = "k.cubin"

KernelExecutionFailures == {"kernel launch failed", "synchronize failed"}

\* C18: when run is given a baseline and the candidate's kernel execution
\* fails, the call does not raise and the result it returns carries a
\* comparison entry that holds an error payload.
C18_FailedCandidateStillCompared ==
    /\ (Len(rstack) = 1 /\ Top.pc = "return" /\ Top.compare
            /\ Top.exc \in KernelExecutionFailures) =>
        /\ "comparison" \in DOMAIN Top.results
        /\ "error" \in DOMAIN Top.results["comparison"]
    /\ \A i \in 1..Len(inv_log) :
        inv_log[i].failure \in KernelExecutionFailures =>
            inv_log[i].status # "raised"

ResultFields == {"success", "error", "timing", "correctness"}

\* C19: the candidate's result does not change once produced. From the state
\* in which the candidate's invocation holds a result with success = True,
\* no step of that invocation, of the baseline's invocation or of the
\* comparison changes its success, error, timing or correctness field.
C19_CandidateResultImmutable ==
    [][(/\ rstack # <<>>
        /\ rstack' # <<>>
        /\ rstack'[1].inv = rstack[1].inv
        /\ Succeeded(rstack[1])) =>
            \A f \in ResultFields :
                rstack'[1].results[f] = rstack[1].results[f]
      ]_vars

\* How many times context c is on the stack of thread w.
Activations(w, c) ==
    Cardinality({i \in 1..Len(ctx_stack[w]) : ctx_stack[w][i] = c})

\* C20: acquire is idempotent in its activation. While the process runs, a
\* thread that has a context has it on its stack exactly once, however many
\* times _ensure_cuda_context was called, the nested baseline run included.
C20_OneActivationPerContext ==
    \A w \in Threads :
        (phase = "running" /\ ~td_active /\ HasContext(w)
            /\ ~(rstack # <<>> /\ Top.pc = "ensure")) =>
            Activations(w, LocalContext(w)) = 1

\* ------------------------------------------------- claims on the teardown

RaisedInPass == {c \in 1..Len(pop_raised) : pop_raised[c]}

\* C21: release failures during the teardown are swallowed. No pass of
\* _cleanup_all_contexts lets an exception out to its caller; while a pass is
\* in its loop, every registry entry before the loop index has had its
\* ctx.pop() in this pass, whether or not an earlier ctx.pop() raised; and
\* when the first pass has finished, every registered context has had exactly
\* one ctx.pop() in it, those after a failed one included, and the registry
\* is empty.
C21_ReleaseFailuresSwallowed ==
    /\ td_error = "none"
    /\ td_active =>
        \A i \in 1..Len(contexts_to_cleanup) :
            i < td_i => pass_pops[contexts_to_cleanup[i]] = 1
    /\ (passes >= 1 /\ ~td_active) => contexts_to_cleanup = <<>>
    /\ (passes = 1 /\ ~td_active) =>
        \A c \in ever_registered : pass_pops[c] = 1

\* C21 witness: two contexts were registered; in the finished first pass the
\* ctx.pop() of the first one raised, the second one still had its ctx.pop(),
\* and the registry is empty.
C21_Witness ==
    /\ Cardinality(ever_registered) = 2
    /\ passes = 1
    /\ ~td_active
    /\ \E c, d \in ever_registered :
        /\ c < d
        /\ pop_raised[c]
        /\ pass_pops[d] = 1
    /\ td_error = "none"
    /\ contexts_to_cleanup = <<>>

\* ------------------------------------------- claims on the returned results

TimingFields == {"mean_ms", "std_ms", "min_ms", "max_ms"}
CorrectnessFields == {"max_error", "passed"}

\* The result dicts that run has handed or is about to hand to its caller at
\* line 160: of an invocation standing at its return statement, of a baseline
\* run as received at line 150, and of the last outermost call.
ReturnedResults ==
    {rstack[i].results : i \in {j \in 1..Len(rstack) : rstack[j].pc = "return"}}
        \cup {rstack[i].baseline :
                i \in {j \in 1..Len(rstack) : rstack[j].baseline # NotCalled}}
        \cup (IF run_out.kind = "return" THEN {run_out.value} ELSE {})

ConsistentResult(r) ==
    /\ r["success"] <=> (r["error"] = None)
    /\ r["success"] =>
        /\ TimingFields \subseteq DOMAIN r["timing"]
        /\ CorrectnessFields \subseteq DOMAIN r["correctness"]
        /\ {"samples", "test_size"} \subseteq DOMAIN r
        /\ r["samples"] # <<>>
        /\ r["test_size"] \in NSet
    /\ ~r["success"] => r["error"] # None

\* C22: every result returned by KernelRunner.run is internally consistent.
\* In each returned dict, of the candidate run and of the baseline run alike,
\* success is true exactly when error is None; a result with success true has
\* the four timing figures, max_error and passed, the samples and test_size;
\* a result with success false has an error message.
C22_ReturnedResultConsistent ==
    \A r \in ReturnedResults : ConsistentResult(r)

\* C22 witness: the candidate stands at its return statement with success
\* true and a comparison entry, and the baseline run has returned to it a
\* result with success false and an error message.
C22_Witness ==
    /\ Len(rstack) = 1
    /\ Top.pc = "return"
    /\ Top.results["success"]
    /\ Top.results["error"] = None
    /\ "comparison" \in DOMAIN Top.results
    /\ Top.baseline # NotCalled
    /\ ~Top.baseline["success"]
    /\ Top.baseline["error"] # None

====
